---- MODULE Spec2Model ----
(***************************************************************************)
(* store::Vector of near-sdk: a vector kept on the trie behind a           *)
(* write-back cache (near-sdk/src/store/vec/mod.rs).                       *)
(*                                                                         *)
(* The state is one Vector instance (len, cache), the host storage it      *)
(* writes to, and a record of the last call: its arguments, what it        *)
(* returned (or the panic that aborted it), the call before it and the     *)
(* storage operations it issued.  A panic aborts the execution: no call    *)
(* follows it.  hist keeps the calls of a scripted run (the test           *)
(* scenarios); it stays empty in the free-running specification.           *)
(***************************************************************************)
EXTENDS Integers, Sequences, FiniteSets, TLC

VARIABLES len, cache, store, alive, last, log, hist

vars == <<len, cache, store, alive, last, log, hist>>

----------------------------------------------------------------------------
(* Bounds of the model: the inputs the environment draws from.             *)

MaxLen == 2
MaxVal == 2
(* The longest run of pushes of the push/pop script, and how many times it *)
(* pops the Vector once it is empty.                                       *)
MaxPush == 3
MaxExtraPop == 2
(* The longest Vector the run to capacity flushes.                         *)
MaxFlushLen == 1

Values == 1..MaxVal
Indices == 0..MaxLen

(* u32::MAX, the capacity push checks against, scaled down to a width the  *)
(* model can fill.                                                         *)
U32_MAX == 5

----------------------------------------------------------------------------
(* Option<T>                                                               *)

None == <<>>
Some(v) == <<v>>
IsSome(o) == o # <<>>
Unwrap(o) == o[1]

(* What a call gives back: (), an Option, a T, or the panic that aborted   *)
(* it.                                                                     *)
Unit == [tag |-> "Unit", val |-> None]
Returned(o) == [tag |-> "Ok", val |-> o]
Panic(msg) == [tag |-> msg, val |-> None]

ERR_INDEX_OUT_OF_BOUNDS == "IndexOutOfBounds"
ERR_INCONSISTENT_STATE == "InconsistentState"
ERR_UNWRAP_NONE == "UnwrapNone"

PanicTags == {ERR_INDEX_OUT_OF_BOUNDS, ERR_INCONSISTENT_STATE, ERR_UNWRAP_NONE}
IsPanic(r) == r.tag \in PanicTags

----------------------------------------------------------------------------
(* Keys and element encoding.                                              *)

Prefix == <<118>>

RECURSIVE ToLeBytes(_, _)
ToLeBytes(n, width) ==
    IF width = 0 THEN <<>> ELSE <<n % 256>> \o ToLeBytes(n \div 256, width - 1)

RECURSIVE FromLeBytes(_)
FromLeBytes(bytes) ==
    IF bytes = <<>> THEN 0 ELSE bytes[1] + 256 * FromLeBytes(Tail(bytes))

index_to_lookup_key(index) == Prefix \o ToLeBytes(index, 4)

serialize_element(element) == ToLeBytes(element, 8)
deserialize_element(raw) == FromLeBytes(raw)

----------------------------------------------------------------------------
(* Host storage: a map from key to bytes.                                  *)

storage_read(s, key) == IF key \in DOMAIN s THEN Some(s[key]) ELSE None
storage_write(s, key, bytes) ==
    [k \in DOMAIN s \cup {key} |-> IF k = key THEN bytes ELSE s[k]]
storage_remove(s, key) == [k \in DOMAIN s \ {key} |-> s[k]]

ReadOp(key) == [op |-> "read", key |-> key]
WriteOp(key) == [op |-> "write", key |-> key]
RemoveOp(key) == [op |-> "remove", key |-> key]

----------------------------------------------------------------------------
(* CacheEntry<T>                                                           *)

new_cached(value) == [value |-> value, state |-> "Cached"]
new_modified(value) == [value |-> value, state |-> "Modified"]
is_modified(e) == e.state = "Modified"
(* *entry.value_mut() = value: the state is left as it is.                 *)
value_mut_assign(e, value) == [e EXCEPT !.value = value]
(* entry.replace(value): the old value is e.value.                         *)
replace_entry(e, value) == [value |-> value, state |-> "Modified"]
replace_state(e, state) == [e EXCEPT !.state = state]

----------------------------------------------------------------------------
(* A call runs on m = [len, cache, store, log, ret]: the Vector, the       *)
(* storage, the storage operations issued so far and the value returned.   *)

EmptyMap == [k \in {} |-> None]

Begin == [len |-> len, cache |-> cache, store |-> store, log |-> <<>>, ret |-> Unit]

PutEntry(c, index, e) ==
    [k \in DOMAIN c \cup {index} |-> IF k = index THEN e ELSE c[k]]

(* A loader that runs on every call: it reads the storage again although  *)
(* the slot is in the cache (whose entry it keeps).                        *)
LoadEntry_AlwaysReads(m, index) ==
    LET key == index_to_lookup_key(index)
        storage_bytes == storage_read(m.store, key)
        value == IF IsSome(storage_bytes)
                 THEN Some(deserialize_element(Unwrap(storage_bytes)))
                 ELSE None
    IN IF index \in DOMAIN m.cache
       THEN [m EXCEPT !.log = Append(m.log, ReadOp(key))]
       ELSE [m EXCEPT !.cache = PutEntry(m.cache, index, new_cached(value)),
                      !.log = Append(m.log, ReadOp(key))]

(* get_or_init with the loader of get and get_mut_inner.                   *)
LoadEntry(m, index) ==
    IF index \in DOMAIN m.cache
    THEN m
    ELSE LET key == index_to_lookup_key(index)
             storage_bytes == storage_read(m.store, key)
             value == IF IsSome(storage_bytes)
                      THEN Some(deserialize_element(Unwrap(storage_bytes)))
                      ELSE None
         IN [m EXCEPT !.cache = PutEntry(m.cache, index, new_cached(value)),
                      !.log = Append(m.log, ReadOp(key))]

get(m, index) ==
    LET m1 == LoadEntry(m, index)
    IN [m1 EXCEPT !.ret = Returned(m1.cache[index].value)]

(* get_mut_inner that marks the slot modified as it hands it out.          *)
get_mut_inner_MarksModified(m, index) ==
    LET m1 == LoadEntry(m, index)
    IN [m1 EXCEPT !.cache[index] = replace_state(m1.cache[index], "Modified")]

get_mut_inner(m, index) == LoadEntry(m, index)

(* len() and is_empty(): the u32 and the bool are given back like a T.     *)
vec_len(m) == [m EXCEPT !.ret = Returned(Some(m.len))]
is_empty(m) == [m EXCEPT !.ret = Returned(Some(m.len = 0))]

(* entry.replace(value) on the slot get_mut_inner gives; ret is the old    *)
(* value.                                                                  *)
ReplaceAt(m, index, value) ==
    LET m1 == get_mut_inner(m, index)
    IN [m1 EXCEPT !.cache[index] = replace_entry(m1.cache[index], value),
                  !.ret = Returned(m1.cache[index].value)]

(* set that writes only slots that are not in the cache yet.               *)
set_SkipsExisting(m, index, value) ==
    IF index >= m.len
    THEN [m EXCEPT !.ret = Panic(ERR_INDEX_OUT_OF_BOUNDS)]
    ELSE IF index \in DOMAIN m.cache
         THEN [m EXCEPT !.ret = Unit]
         ELSE [m EXCEPT !.cache = PutEntry(m.cache, index, new_modified(Some(value))),
                        !.ret = Unit]

set(m, index, value) ==
    IF index >= m.len
    THEN [m EXCEPT !.ret = Panic(ERR_INDEX_OUT_OF_BOUNDS)]
    ELSE IF index \in DOMAIN m.cache
         THEN [m EXCEPT !.cache[index] = value_mut_assign(m.cache[index], Some(value)),
                        !.ret = Unit]
         ELSE [m EXCEPT !.cache = PutEntry(m.cache, index, new_modified(Some(value))),
                        !.ret = Unit]

(* push without its capacity check.                                        *)
push_Unchecked(m, element) ==
    LET last_idx == m.len
    IN set([m EXCEPT !.len = m.len + 1], last_idx, element)

push(m, element) ==
    IF m.len >= U32_MAX
    THEN [m EXCEPT !.ret = Panic(ERR_INDEX_OUT_OF_BOUNDS)]
    ELSE LET last_idx == m.len
         IN set([m EXCEPT !.len = m.len + 1], last_idx, element)

(* pop that clears the slot at len instead of the one at len - 1.          *)
pop_OffByOne(m) ==
    IF m.len = 0
    THEN [m EXCEPT !.ret = Returned(None)]
    ELSE ReplaceAt([m EXCEPT !.len = m.len - 1], m.len, None)

pop(m) ==
    IF m.len = 0
    THEN [m EXCEPT !.ret = Returned(None)]
    ELSE LET last_idx == m.len - 1
         IN ReplaceAt([m EXCEPT !.len = last_idx], last_idx, None)

(* swap that never puts b's old value into a.                              *)
swap_DropsB(m, a, b) ==
    IF a >= m.len \/ b >= m.len
    THEN [m EXCEPT !.ret = Panic(ERR_INDEX_OUT_OF_BOUNDS)]
    ELSE IF a = b
         THEN [m EXCEPT !.ret = Unit]
         ELSE LET m1 == ReplaceAt(m, a, None)
                  m2 == ReplaceAt(m1, b, m1.ret.val)
              IN [m2 EXCEPT !.ret = Unit]

(* swap without its bounds check.                                          *)
swap_Unchecked(m, a, b) ==
    IF a = b
    THEN [m EXCEPT !.ret = Unit]
    ELSE LET m1 == ReplaceAt(m, a, None)
             m2 == ReplaceAt(m1, b, m1.ret.val)
             m3 == ReplaceAt(m2, a, m2.ret.val)
         IN [m3 EXCEPT !.ret = Unit]

swap(m, a, b) ==
    IF a >= m.len \/ b >= m.len
    THEN [m EXCEPT !.ret = Panic(ERR_INDEX_OUT_OF_BOUNDS)]
    ELSE IF a = b
         THEN [m EXCEPT !.ret = Unit]
         ELSE LET m1 == ReplaceAt(m, a, None)
                  val_a == m1.ret.val
                  m2 == ReplaceAt(m1, b, val_a)
                  val_b == m2.ret.val
                  m3 == ReplaceAt(m2, a, val_b)
              IN [m3 EXCEPT !.ret = Unit]

swap_remove(m, index) ==
    IF m.len = 0
    THEN [m EXCEPT !.ret = Panic(ERR_INDEX_OUT_OF_BOUNDS)]
    ELSE LET m1 == swap(m, index, m.len - 1)
         IN IF IsPanic(m1.ret)
            THEN m1
            ELSE LET m2 == pop(m1)
                 IN IF IsSome(m2.ret.val)
                    THEN [m2 EXCEPT !.ret = Returned(m2.ret.val)]
                    ELSE [m2 EXCEPT !.ret = Panic(ERR_INCONSISTENT_STATE)]

replace(m, index, element) ==
    LET m1 == ReplaceAt(m, index, Some(element))
    IN IF IsSome(m1.ret.val)
       THEN m1
       ELSE [m1 EXCEPT !.ret = Panic(ERR_UNWRAP_NONE)]

(* get_mut gives Option<&mut T>; w is what the caller assigns through the  *)
(* reference when there is one (None: nothing).                            *)
get_mut(m, index, w) ==
    LET m1 == get_mut_inner(m, index)
        entry == m1.cache[index]
    IN IF IsSome(w) /\ IsSome(entry.value)
       THEN [m1 EXCEPT !.cache[index] = value_mut_assign(entry, w),
                       !.ret = Returned(entry.value)]
       ELSE [m1 EXCEPT !.ret = Returned(entry.value)]

(* iter().collect(): get on every index of 0..len, in order.               *)
RECURSIVE IterFrom(_, _, _)
IterFrom(m, i, items) ==
    IF i >= m.len
    THEN [m EXCEPT !.ret = Returned(items)]
    ELSE LET m1 == get(m, i) IN IterFrom(m1, i + 1, Append(items, m1.ret.val))

iter_collect(m) == IterFrom(m, 0, <<>>)

RECURSIVE ClearFrom(_, _)
ClearFrom(m, i) ==
    IF i >= m.len
    THEN m
    ELSE LET lookup_key == index_to_lookup_key(i)
         IN ClearFrom([m EXCEPT !.store = storage_remove(m.store, lookup_key),
                                !.log = Append(m.log, RemoveOp(lookup_key))],
                      i + 1)

(* clear that keeps the cached slots.                                      *)
clear_KeepsCache(m) ==
    LET m1 == ClearFrom(m, 0)
    IN [m1 EXCEPT !.len = 0, !.ret = Unit]

clear(m) ==
    LET m1 == ClearFrom(m, 0)
    IN [m1 EXCEPT !.len = 0, !.cache = EmptyMap, !.ret = Unit]

SetMin(S) == CHOOSE x \in S : \A y \in S : x <= y

(* flush that leaves the entries it wrote in state Modified.               *)
FlushEntry_StaysModified(m, k) ==
    LET v == m.cache[k]
        key == index_to_lookup_key(k)
    IN IF is_modified(v)
       THEN IF IsSome(v.value)
            THEN [m EXCEPT !.store = storage_write(m.store, key,
                                                   serialize_element(Unwrap(v.value))),
                           !.log = Append(m.log, WriteOp(key))]
            ELSE [m EXCEPT !.store = storage_remove(m.store, key),
                           !.log = Append(m.log, RemoveOp(key))]
       ELSE m

(* flush that writes every slot holding a value, modified or not.          *)
FlushEntry_WritesCached(m, k) ==
    LET v == m.cache[k]
        key == index_to_lookup_key(k)
    IN IF IsSome(v.value)
       THEN [m EXCEPT !.store = storage_write(m.store, key,
                                              serialize_element(Unwrap(v.value))),
                      !.log = Append(m.log, WriteOp(key)),
                      !.cache[k] = replace_state(v, "Cached")]
       ELSE IF is_modified(v)
            THEN [m EXCEPT !.store = storage_remove(m.store, key),
                           !.log = Append(m.log, RemoveOp(key)),
                           !.cache[k] = replace_state(v, "Cached")]
            ELSE m

FlushEntry(m, k) ==
    LET v == m.cache[k]
        key == index_to_lookup_key(k)
    IN IF is_modified(v)
       THEN IF IsSome(v.value)
            THEN [m EXCEPT !.store = storage_write(m.store, key,
                                                   serialize_element(Unwrap(v.value))),
                           !.log = Append(m.log, WriteOp(key)),
                           !.cache[k] = replace_state(v, "Cached")]
            ELSE [m EXCEPT !.store = storage_remove(m.store, key),
                           !.log = Append(m.log, RemoveOp(key)),
                           !.cache[k] = replace_state(v, "Cached")]
       ELSE m

RECURSIVE FlushKeys(_, _)
FlushKeys(m, ks) ==
    IF ks = {}
    THEN m
    ELSE LET k == SetMin(ks) IN FlushKeys(FlushEntry(m, k), ks \ {k})

flush(m) == [FlushKeys(m, DOMAIN m.cache) EXCEPT !.ret = Unit]

(* The loop of flush visiting the slots in the order of the sequence ks.   *)
RECURSIVE FlushInOrder(_, _)
FlushInOrder(m, ks) ==
    IF ks = <<>>
    THEN [m EXCEPT !.ret = Unit]
    ELSE FlushInOrder(FlushEntry(m, Head(ks)), Tail(ks))

(* Every order in which the slots of cache c can be visited.               *)
VisitOrders(c) ==
    {ks \in [1..Cardinality(DOMAIN c) -> DOMAIN c] :
        \A j, k \in DOMAIN ks : j # k => ks[j] # ks[k]}

(* Drop: flush, and the instance with its cache is gone.                   *)
drop(m) == [flush(m) EXCEPT !.cache = EmptyMap]

----------------------------------------------------------------------------
(* The state machine.                                                      *)

Call(op, idx, val) == [op |-> op, idx |-> idx, val |-> val]

NoCall == [op |-> "new", idx |-> 0, val |-> 0, ret |-> Unit, prev |-> "none"]

Aborted == IsPanic(last.ret)
Ready == alive /\ ~Aborted

Commit(m, c) ==
    /\ len' = m.len
    /\ cache' = m.cache
    /\ store' = m.store
    /\ log' = m.log
    /\ last' = [op |-> c.op, idx |-> c.idx, val |-> c.val, ret |-> m.ret, prev |-> last.op]

(* Vector::new(prefix) over an empty storage.                              *)
Init ==
    /\ len = 0
    /\ cache = EmptyMap
    /\ store = EmptyMap
    /\ alive = TRUE
    /\ last = NoCall
    /\ log = <<>>
    /\ hist = <<>>

Get(i) == Ready /\ Commit(get(Begin, i), Call("get", i, 0)) /\ UNCHANGED alive
GetMut(i, w) ==
    /\ Ready
    /\ Commit(get_mut(Begin, i, w), Call("get_mut", i, IF IsSome(w) THEN Unwrap(w) ELSE 0))
    /\ UNCHANGED alive
VecLen == Ready /\ Commit(vec_len(Begin), Call("len", 0, 0)) /\ UNCHANGED alive
IsEmpty == Ready /\ Commit(is_empty(Begin), Call("is_empty", 0, 0)) /\ UNCHANGED alive
Iter == Ready /\ Commit(iter_collect(Begin), Call("iter", 0, 0)) /\ UNCHANGED alive
Set(i, v) == Ready /\ Commit(set(Begin, i, v), Call("set", i, v)) /\ UNCHANGED alive
Push(v) == Ready /\ Commit(push(Begin, v), Call("push", 0, v)) /\ UNCHANGED alive
Pop == Ready /\ Commit(pop(Begin), Call("pop", 0, 0)) /\ UNCHANGED alive
SwapRemove(i) ==
    Ready /\ Commit(swap_remove(Begin, i), Call("swap_remove", i, 0)) /\ UNCHANGED alive
Replace(i, v) ==
    Ready /\ Commit(replace(Begin, i, v), Call("replace", i, v)) /\ UNCHANGED alive
Clear == Ready /\ Commit(clear(Begin), Call("clear", 0, 0)) /\ UNCHANGED alive
Flush == Ready /\ Commit(flush(Begin), Call("flush", 0, 0)) /\ UNCHANGED alive
Drop == Ready /\ Commit(drop(Begin), Call("drop", 0, 0)) /\ alive' = FALSE

(* A fresh instance over the same prefix: the stored len, an empty cache.  *)
Reopen ==
    /\ ~alive
    /\ alive' = TRUE
    /\ cache' = EmptyMap
    /\ last' = [op |-> "reopen", idx |-> 0, val |-> 0, ret |-> Unit, prev |-> last.op]
    /\ log' = <<>>
    /\ UNCHANGED <<len, store>>

DoGet == \E i \in Indices : Get(i) /\ UNCHANGED hist
DoSet == \E i \in Indices, v \in Values : Set(i, v) /\ UNCHANGED hist
DoPush == \E v \in Values : len < MaxLen /\ Push(v) /\ UNCHANGED hist
DoPop == Pop /\ UNCHANGED hist
DoSwapRemove == \E i \in Indices : SwapRemove(i) /\ UNCHANGED hist
DoReplace == \E i \in Indices, v \in Values : Replace(i, v) /\ UNCHANGED hist
DoClear == Clear /\ UNCHANGED hist
DoFlush == Flush /\ UNCHANGED hist
DoDrop == Drop /\ UNCHANGED hist
DoReopen == Reopen /\ UNCHANGED hist
DoGetMut ==
    \E i \in Indices, w \in {None} \cup {Some(v) : v \in Values} :
        GetMut(i, w) /\ UNCHANGED hist

Next ==
    \/ DoGet
    \/ DoSet
    \/ DoPush
    \/ DoPop
    \/ DoSwapRemove
    \/ DoReplace
    \/ DoClear
    \/ DoFlush
    \/ DoDrop
    \/ DoReopen

Spec == Init /\ [][Next]_vars

(* The same with get_mut and what its caller writes through the reference. *)
NextMut ==
    \/ Next
    \/ DoGetMut

SpecMut == Init /\ [][NextMut]_vars

(* The same with the calls that only look: len, is_empty and iter.         *)
DoVecLen == VecLen /\ UNCHANGED hist
DoIsEmpty == IsEmpty /\ UNCHANGED hist
DoIter == Iter /\ UNCHANGED hist

NextAll ==
    \/ NextMut
    \/ DoVecLen
    \/ DoIsEmpty
    \/ DoIter

SpecAll == Init /\ [][NextAll]_vars

(* The Vector filled to its capacity: push whatever len is, with pop in    *)
(* between, and flush while the Vector is no longer than MaxFlushLen.      *)
DoPushAny == \E v \in Values : Push(v) /\ UNCHANGED hist
DoFlushShort == len <= MaxFlushLen /\ Flush /\ UNCHANGED hist

CapNext ==
    \/ DoPushAny
    \/ DoPop
    \/ DoFlushShort

CapSpec == Init /\ [][CapNext]_vars

----------------------------------------------------------------------------
(* The free-running Vector with its storage reads kept: hist holds the     *)
(* reads the instance has issued since it was made or last cleared.        *)

IsReadOp(o) == o.op = "read"
Reads(ops) == SelectSeq(ops, IsReadOp)

RecordReads == hist' = hist \o Reads(log')
ResetReads == hist' = <<>>

ReadsNext ==
    \/ \E i \in Indices : Get(i) /\ RecordReads
    \/ \E i \in Indices : GetMut(i, None) /\ RecordReads
    \/ \E i \in Indices, v \in Values : Set(i, v) /\ RecordReads
    \/ \E v \in Values : len < MaxLen /\ Push(v) /\ RecordReads
    \/ Pop /\ RecordReads
    \/ \E i \in Indices : SwapRemove(i) /\ RecordReads
    \/ \E i \in Indices, v \in Values : Replace(i, v) /\ RecordReads
    \/ Flush /\ RecordReads
    \/ Clear /\ ResetReads
    \/ Drop /\ RecordReads
    \/ Reopen /\ ResetReads

ReadsSpec == Init /\ [][ReadsNext]_vars

----------------------------------------------------------------------------
(* The push/pop script of test_push_pop: on a new Vector, push up to       *)
(* MaxPush values, collect iter(), then pop, MaxExtraPop times more than   *)
(* was pushed.                                                             *)

IsPushCall(c) == c.op = "push"
IsPopCall(c) == c.op = "pop"
IsIterCall(c) == c.op = "iter"

Pushes == SelectSeq(hist, IsPushCall)
Pops == SelectSeq(hist, IsPopCall)
Iters == SelectSeq(hist, IsIterCall)

Record == hist' = Append(hist, last')

PushPopNext ==
    \/ \E v \in Values :
          /\ Len(hist) = Len(Pushes)
          /\ Len(Pushes) < MaxPush
          /\ Push(v)
          /\ Record
    \/ /\ Len(hist) = Len(Pushes)
       /\ Iter
       /\ Record
    \/ /\ Len(Pops) < Len(Pushes) + MaxExtraPop
       /\ Pop
       /\ Record

PushPopSpec == Init /\ [][PushPopNext]_vars

----------------------------------------------------------------------------
(* The end-to-end script: on a new Vector, five pushes, one swap_remove,   *)
(* one pop, flush, then the instance is dropped and a fresh one over the   *)
(* same prefix is iterated.                                                *)

ScenarioInput == <<0, 1, 2, 3, 4>>
ScenarioVals == {ScenarioInput[k] : k \in DOMAIN ScenarioInput}
ScenarioPushes == Len(ScenarioInput)

At(n) == Len(hist) = n

ScenarioNext ==
    \/ \E v \in ScenarioVals : Len(hist) < ScenarioPushes /\ Push(v) /\ Record
    \/ \E i \in 0..(ScenarioPushes - 1) : At(ScenarioPushes) /\ SwapRemove(i) /\ Record
    \/ At(ScenarioPushes + 1) /\ Pop /\ Record
    \/ At(ScenarioPushes + 2) /\ Flush /\ Record
    \/ At(ScenarioPushes + 3) /\ Drop /\ Record
    \/ At(ScenarioPushes + 4) /\ Reopen /\ Record
    \/ At(ScenarioPushes + 5) /\ Iter /\ Record

ScenarioSpec == Init /\ [][ScenarioNext]_vars

----------------------------------------------------------------------------
(* What get(index) returns on an instance with cache c over storage s.     *)

GetVal(c, s, index) ==
    get([len |-> 0, cache |-> c, store |-> s, log |-> <<>>, ret |-> Unit], index).ret.val

(* What get(index) returns on a fresh instance (empty cache) over s.       *)
FreshVal(s, index) == GetVal(EmptyMap, s, index)

(* The sequence get reads on 0..len.                                       *)
Contents == [i \in 1..len |-> GetVal(cache, store, i - 1)]

SomeSeq(vs) == [i \in 1..Len(vs) |-> Some(vs[i])]

----------------------------------------------------------------------------
(* C1: the flush run by drop loses nothing: for every index below len, a   *)
(* fresh instance over the storage drop leaves reads the value get read on *)
(* the dropped instance just before.                                       *)
C1_NoMutationLost ==
    [][last'.op = "drop" =>
         \A i \in 0..(len - 1) : FreshVal(store', i) = GetVal(cache, store, i)]_vars

(* C2: set(i, x) with i < len, then flush, then get(i) on a fresh instance *)
(* gives x.                                                                *)
C2_SetFlushRoundTrip ==
    [][(last.op = "set" /\ last.ret = Unit /\ last'.op = "flush") =>
         FreshVal(store', last.idx) = Some(last.val)]_vars

(* C3: swap_remove(i) on a non-empty Vector with i < len returns what      *)
(* get(i) read before, takes one off len, leaves the former last element   *)
(* at i (when i was not the last index) and every other index below the    *)
(* new len as it was.                                                      *)
C3_SwapRemove ==
    [][(last'.op = "swap_remove" /\ len > 0 /\ last'.idx < len) =>
         /\ last'.ret = Returned(GetVal(cache, store, last'.idx))
         /\ IsSome(last'.ret.val)
         /\ len' = len - 1
         /\ (last'.idx # len - 1 =>
                GetVal(cache', store', last'.idx) = GetVal(cache, store, len - 1))
         /\ \A j \in 0..(len - 2) :
                j # last'.idx => GetVal(cache', store', j) = GetVal(cache, store, j)]_vars

(* C6: a flush right after a flush issues no storage write and no storage  *)
(* remove, and no flush changes len or what get reads at any index.        *)
C6_FlushIdempotent ==
    [][last'.op = "flush" =>
         /\ len' = len
         /\ \A i \in Indices : GetVal(cache', store', i) = GetVal(cache, store, i)
         /\ last.op = "flush" => log' = <<>>]_vars

(* A second flush has run on a cache that holds a flushed value.           *)
C6_Witness ==
    /\ last.op = "flush"
    /\ last.prev = "flush"
    /\ \E i \in DOMAIN cache :
          /\ IsSome(cache[i].value)
          /\ FreshVal(store, i) = cache[i].value

(* C7: get(index) with index >= len returns None.                          *)
C7_GetBeyondLenIsNone ==
    (last.op = "get" /\ last.idx >= len) => last.ret = Returned(None)

(* C8: get and get_mut with index >= len read nothing from the storage and *)
(* leave the cache as it was.                                              *)
C8_GetBeyondLenTouchesNothing ==
    [][(last'.op \in {"get", "get_mut"} /\ last'.idx >= len) =>
         (cache' = cache /\ log' = <<>>)]_vars

(* C9: replace(index, value) with index >= len panics.                     *)
C9_ReplaceBeyondLenFails ==
    (last.op = "replace" /\ last.idx >= len) => IsPanic(last.ret)

(* C10: set(index, x) with index >= len, swap_remove on an empty Vector    *)
(* and swap_remove(index) with index >= len panic with IndexOutOfBounds,   *)
(* and len, the cache and the storage are then as they were before the     *)
(* call.                                                                   *)
C10_BoundsCheckedBeforeChange ==
    [][(\/ last'.op = "set" /\ last'.idx >= len
        \/ last'.op = "swap_remove" /\ (len = 0 \/ last'.idx >= len)) =>
         /\ last'.ret = Panic(ERR_INDEX_OUT_OF_BOUNDS)
         /\ log' = <<>>
         /\ UNCHANGED <<len, cache, store>>]_vars

(* swap_remove beyond len has panicked on a Vector that holds elements, in *)
(* the cache and in the storage.                                           *)
C10_Witness ==
    /\ last.op = "swap_remove"
    /\ last.ret = Panic(ERR_INDEX_OUT_OF_BOUNDS)
    /\ len > 0
    /\ last.idx >= len
    /\ cache # EmptyMap
    /\ store # EmptyMap

(* C11: clear on a Vector of len L leaves len 0 (is_empty), an empty cache *)
(* and no storage key for any index of 0..L; a flush right after clear     *)
(* issues no storage write and no storage remove.                          *)
C11_Clear ==
    [][/\ last'.op = "clear" =>
            /\ len' = 0
            /\ cache' = EmptyMap
            /\ \A i \in 0..(len - 1) : index_to_lookup_key(i) \notin DOMAIN store'
            /\ log' = [i \in 1..len |-> RemoveOp(index_to_lookup_key(i - 1))]
       /\ (last.op = "clear" /\ last'.op = "flush") => (log' = <<>> /\ store' = store)]_vars

(* clear has removed the flushed keys of a full Vector.                    *)
C11_Witness ==
    /\ last.op = "clear"
    /\ last.prev = "flush"
    /\ Len(log) = MaxLen
    /\ len = 0
    /\ cache = EmptyMap
    /\ store = EmptyMap

(* C12: set(i, x) with i < len and then replace(i, y): replace returns x,  *)
(* get(i) then reads y, and slot i is Modified.                            *)
C12_SetReplace ==
    [][(last.op = "set" /\ last.ret = Unit /\ last'.op = "replace" /\ last'.idx = last.idx) =>
         /\ last'.ret = Returned(Some(last.val))
         /\ GetVal(cache', store', last'.idx) = Some(last'.val)
         /\ cache'[last'.idx].state = "Modified"]_vars

(* replace(0, y) right after a set on the Vector of len 1 (so set(0, x)),  *)
(* with y different from the x it returned.                                *)
C12_Witness ==
    /\ last.op = "replace"
    /\ last.prev = "set"
    /\ len = 1
    /\ last.idx = 0
    /\ last.ret.tag = "Ok"
    /\ IsSome(last.ret.val)
    /\ Unwrap(last.ret.val) # last.val
    /\ cache[0] = new_modified(Some(last.val))

(* What push does on every step, failing at capacity with the panic whose *)
(* tag is capacityError.                                                   *)
PushStep(capacityError) ==
    last'.op = "push" =>
        IF len = U32_MAX
        THEN /\ last'.ret = Panic(capacityError)
             /\ UNCHANGED <<len, cache, store>>
        ELSE /\ last'.ret = Unit
             /\ len' = len + 1
             /\ GetVal(cache', store', len) = Some(last'.val)
             /\ \A i \in 0..(len - 1) : GetVal(cache', store', i) = GetVal(cache, store, i)

C14_CachedMatchesStore ==
    \A i \in DOMAIN cache :
        cache[i].state = "Cached" => cache[i].value = FreshVal(store, i)

(* C15: set(index, value) with index < len leaves the slot holding value   *)
(* in state Modified, whether the slot existed or not, and reads nothing   *)
(* from the storage.                                                       *)
C15_SetMarksModified ==
    [][(last'.op = "set" /\ last'.idx < len) =>
         /\ cache'[last'.idx] = new_modified(Some(last'.val))
         /\ log' = <<>>]_vars

(* C16: after a flush the storage holds no key of the Vector for an index  *)
(* at or beyond len.                                                       *)
C16_NoStaleKeysAfterFlush ==
    last.op = "flush" =>
        \A i \in Indices : i >= len => index_to_lookup_key(i) \notin DOMAIN store

NoDuplicates(ops) == \A j, k \in DOMAIN ops : j # k => ops[j] # ops[k]
Range(ops) == {ops[k] : k \in DOMAIN ops}

(* C17: between two clears, one instance reads the storage at most once    *)
(* per index, whatever calls touch it: a read is issued only for an index  *)
(* that has no slot, set and push issue none, and a slot stays in the      *)
(* cache until clear or the end of the instance; so an index whose slot    *)
(* set or push created is not read.                                        *)
C17_LazyLoadOnce ==
    /\ [](NoDuplicates(hist))
    /\ [][/\ \A k \in DOMAIN log' :
                IsReadOp(log'[k]) =>
                    \E i \in Indices \ DOMAIN cache : log'[k].key = index_to_lookup_key(i)
          /\ last'.op \in {"set", "push"} => Reads(log') = <<>>
          /\ last'.op \notin {"clear", "drop", "reopen"} =>
                DOMAIN cache \subseteq DOMAIN cache']_vars

(* get right after set on an index the storage holds a key for: set made   *)
(* the slot, nothing has read that key, and the instance has read another. *)
C17_Witness ==
    /\ last.op = "get"
    /\ last.prev = "set"
    /\ log = <<>>
    /\ hist # <<>>
    /\ index_to_lookup_key(last.idx) \in DOMAIN store
    /\ ReadOp(index_to_lookup_key(last.idx)) \notin Range(hist)
    /\ cache[last.idx].state = "Modified"

(* The storage operations of ops on key.                                   *)
OpsOn(ops, key) == SelectSeq(ops, LAMBDA o : o.key = key)

(* C18: a flush (and the flush drop runs) issues for every Modified slot   *)
(* exactly one storage operation on its key, a write of the value when     *)
(* there is one and a remove when there is none, nothing for a Cached slot *)
(* or any other key, and no read; flush leaves every slot Cached with its  *)
(* value; whatever the order the slots are visited in, the storage ends    *)
(* the same.                                                               *)
C18_FlushReconciles ==
    [][last'.op \in {"flush", "drop"} =>
         /\ \A i \in DOMAIN cache :
               LET key == index_to_lookup_key(i)
               IN IF cache[i].state = "Modified"
                  THEN IF IsSome(cache[i].value)
                       THEN /\ OpsOn(log', key) = <<WriteOp(key)>>
                            /\ key \in DOMAIN store'
                            /\ store'[key] = serialize_element(Unwrap(cache[i].value))
                       ELSE /\ OpsOn(log', key) = <<RemoveOp(key)>>
                            /\ key \notin DOMAIN store'
                  ELSE /\ OpsOn(log', key) = <<>>
                       /\ storage_read(store', key) = storage_read(store, key)
         /\ \A k \in DOMAIN log' :
               /\ ~IsReadOp(log'[k])
               /\ \E i \in DOMAIN cache : log'[k].key = index_to_lookup_key(i)
         /\ last'.op = "flush" =>
               cache' = [i \in DOMAIN cache |-> new_cached(cache[i].value)]
         /\ \A ks \in VisitOrders(cache) : FlushInOrder(Begin, ks).store = store'
         /\ len' = len]_vars

(* A flush has written one slot and removed another, with a third slot in  *)
(* the cache that get loaded just before and the flush left alone.         *)
C18_Witness ==
    /\ last.op = "flush"
    /\ last.prev = "get"
    /\ log = <<WriteOp(index_to_lookup_key(0)), RemoveOp(index_to_lookup_key(1))>>
    /\ DOMAIN cache = {0, 1, 2}
    /\ \A i \in DOMAIN cache : cache[i].state = "Cached"
    /\ DOMAIN store = {index_to_lookup_key(0)}
    /\ len = 1

(* C19: a slot goes from Modified to Cached only in a flush step that has  *)
(* written or removed its key, and from Cached to Modified only in a step  *)
(* of replace, pop or swap_remove; len, is_empty, get, iter and get_mut    *)
(* keep every slot of the cache in its state and make no slot that is      *)
(* Modified.                                                               *)
C19_SlotTransitions ==
    [][/\ \A i \in DOMAIN cache \cap DOMAIN cache' :
            LET key == index_to_lookup_key(i)
            IN /\ (cache[i].state = "Modified" /\ cache'[i].state = "Cached") =>
                     /\ last'.op = "flush"
                     /\ OpsOn(log', key) \in {<<WriteOp(key)>>, <<RemoveOp(key)>>}
               /\ (cache[i].state = "Cached" /\ cache'[i].state = "Modified") =>
                     last'.op \in {"replace", "pop", "swap_remove"}
       /\ last'.op \in {"len", "is_empty", "get", "iter", "get_mut"} =>
            /\ \A i \in DOMAIN cache :
                  i \in DOMAIN cache' /\ cache'[i].state = cache[i].state
            /\ \A i \in DOMAIN cache' \ DOMAIN cache : cache'[i].state = "Cached"]_vars

(* pop right after flush, on a slot that was in the cache (pop read        *)
(* nothing) and that the storage holds the flushed value of: the slot the  *)
(* flush left Cached is Modified again.                                    *)
C19_Witness ==
    /\ last.op = "pop"
    /\ last.prev = "flush"
    /\ log = <<>>
    /\ IsSome(last.ret.val)
    /\ index_to_lookup_key(len) \in DOMAIN store
    /\ store[index_to_lookup_key(len)] = serialize_element(Unwrap(last.ret.val))
    /\ cache[len] = new_modified(None)

(* C4: on a new Vector, after pushing v0..v(n-1) iter and get read exactly *)
(* v0..v(n-1); n pops return v(n-1), ..., v0 and leave the Vector empty;   *)
(* every further pop returns None and changes neither len, the cache nor   *)
(* the storage.                                                            *)
C4_PushPopDuality ==
    /\ [](LET n == Len(Pushes)
          IN /\ Len(Pops) = 0 =>
                   /\ len = n
                   /\ \A i \in 0..(n - 1) : GetVal(cache, store, i) = Some(Pushes[i + 1].val)
             /\ \A k \in 1..Len(Iters) :
                   Iters[k].ret = Returned([i \in 1..n |-> Some(Pushes[i].val)])
             /\ \A k \in 1..Len(Pops) :
                   Pops[k].ret = IF k <= n THEN Returned(Some(Pushes[n - k + 1].val))
                                           ELSE Returned(None)
             /\ Len(Pops) >= n => len = 0)
    /\ [][(last'.op = "pop" /\ len = 0) =>
             (last'.ret = Returned(None) /\ UNCHANGED <<len, cache, store>>)]_vars

(* All of the pushes popped again, and one pop more on the empty Vector.   *)
C4_Witness ==
    /\ Len(Pushes) = MaxPush
    /\ Len(Iters) = 1
    /\ Len(Pops) = MaxPush + 1
    /\ Pushes[1].val # Pushes[MaxPush].val
    /\ last.op = "pop"
    /\ last.ret = Returned(None)

(* The script has made n calls, and they are those of the scenario: the    *)
(* pushes of ScenarioInput in order, then swap_remove(1).                  *)
ScenarioRun(n) ==
    /\ Len(hist) = n
    /\ \A k \in 1..ScenarioPushes : k <= n => hist[k].val = ScenarioInput[k]
    /\ n > ScenarioPushes => hist[ScenarioPushes + 1].idx = 1

(* C5: push 0,1,2,3,4 gives len 5; swap_remove(1) returns 1 and leaves     *)
(* [0,4,2,3]; pop returns 3 and leaves [0,4,2]; after flush the storage    *)
(* holds no key for indices 3 and 4, and a fresh instance of len 3         *)
(* iterates exactly [0,4,2].                                               *)
C5_Scenario ==
    /\ ScenarioRun(5) => (len = 5 /\ Contents = SomeSeq(<<0, 1, 2, 3, 4>>))
    /\ ScenarioRun(6) =>
          (last.ret = Returned(Some(1)) /\ Contents = SomeSeq(<<0, 4, 2, 3>>))
    /\ ScenarioRun(7) =>
          (last.ret = Returned(Some(3)) /\ Contents = SomeSeq(<<0, 4, 2>>))
    /\ (ScenarioRun(8) \/ ScenarioRun(9) \/ ScenarioRun(10) \/ ScenarioRun(11)) =>
          /\ index_to_lookup_key(3) \notin DOMAIN store
          /\ index_to_lookup_key(4) \notin DOMAIN store
          /\ len = 3
          /\ \A i \in 0..2 : FreshVal(store, i) = Some(<<0, 4, 2>>[i + 1])
    /\ ScenarioRun(11) => last.ret = Returned(SomeSeq(<<0, 4, 2>>))

(* The fresh instance has iterated, at the end of the run of the claim.    *)
C5_Witness ==
    /\ ScenarioRun(11)
    /\ last.op = "iter"
    /\ hist[6].op = "swap_remove"
    /\ hist[7].op = "pop"
    /\ hist[8].op = "flush"
    /\ hist[10].op = "reopen"
    /\ DOMAIN cache = 0..2

====
